---- MODULE Spec2Model ----
(***************************************************************************)
(* Shape-and-dataflow model of WavETransformer:                            *)
(*   - Conv1dLSTMCell / Conv1dLSTM   (src/src/WaveLSTM/modules/Conv1dLSTM.py)*)
(*   - Encoder                       (src/src/WaveLSTM/modules/encoder.py)  *)
(*   - main                          (src/experiments/run_vae.py)           *)
(* A tensor is a record [shape, id]: shape is the tuple of its dimension    *)
(* sizes, id names the computation that produced it.  Real-valued contents  *)
(* are not modelled; every shape rule (concatenation, convolution length,   *)
(* broadcasting, stacking) is.                                              *)
(***************************************************************************)
EXTENDS Integers, Sequences, FiniteSets, TLC

\* ---------------------------------------------------------------- bounds
MaxCh == 2
MaxKernel == 3
MaxLayers == 2
MaxT == 2
MaxW == 2
MaxBatch == 1
MaxNegProj == 2
MaxJ == 3
MaxBases == 3
MaxCkpt == 3

\* Optional[float] dropout: None, or a probability in tenths
None == -1
DropoutValues == {None, 0, 5}

MetaValues == {1, 2}

\* Conv1dLSTM
VARIABLES pc, lstm, cell_list, input_tensor, hidden, cell, xt, hidden_last,
          cell_last, layer_idx, tstep, output, calls, result
\* Encoder
VARIABLES e_pc, enc, masked_inputs, meta_data, hidden_state, hidden_embedding, j,
          rnn_calls, e_result
\* run_vae.main
VARIABLES m_pc, dm, latent_dimension, events, best_model_path, trained_model,
          tested

encVars == <<e_pc, enc, masked_inputs, meta_data, hidden_state, hidden_embedding, j,
             rnn_calls, e_result>>

mainVars == <<m_pc, dm, latent_dimension, events, best_model_path, trained_model,
              tested>>

lstmVars == <<pc, lstm, cell_list, input_tensor, hidden, cell, xt, hidden_last,
              cell_last, layer_idx, tstep, output, calls, result>>

\* ------------------------------------------------------------ tensor algebra
Tensor(s, k, t, l) == [shape |-> s, id |-> [kind |-> k, t |-> t, l |-> l]]

NoTensor == Tensor(<<>>, "none", 0, 0)

\* nn.Conv1d output length (stride 1, dilation 1)
ConvLen(w, k, p) == w + 2 * p - (k - 1) - 1 + 1

\* nn.Conv1d applied to a shape (N, C, L); <<>> when the call raises
Conv1d(conv, s) ==
    IF Len(s) # 3 THEN <<>>
    ELSE IF s[2] # conv.in_channels THEN <<>>
    ELSE IF s[3] + 2 * conv.padding < conv.kernel_size THEN <<>>
    ELSE <<s[1], conv.out_channels, ConvLen(s[3], conv.kernel_size, conv.padding)>>

\* torch.cat along dim 1 of two 3-d shapes; <<>> when the call raises
Cat1(a, b) ==
    IF Len(a) # 3 \/ Len(b) # 3 THEN <<>>
    ELSE IF a[1] # b[1] \/ a[3] # b[3] THEN <<>>
    ELSE <<a[1], a[2] + b[2], a[3]>>

BroadcastDim(a, b) == IF a = b THEN a ELSE IF a = 1 THEN b ELSE IF b = 1 THEN a ELSE 0

\* shape of an elementwise binary operation (*, +); <<>> when it raises
Broadcast(a, b) ==
    IF Len(a) # 3 \/ Len(b) # 3 THEN <<>>
    ELSE IF \E d \in 1..3 : BroadcastDim(a[d], b[d]) = 0 THEN <<>>
    ELSE <<BroadcastDim(a[1], b[1]), BroadcastDim(a[2], b[2]), BroadcastDim(a[3], b[3])>>

\* ------------------------------------------------------------ Conv1dLSTMCell
PaddingOf(kernel_size) == kernel_size \div 2

CellRealHidden(proj_size, hidden_channels) ==
    IF proj_size > 0 THEN proj_size ELSE hidden_channels

\* Conv1dLSTMCell.__init__
Conv1dLSTMCell(in_ch, hidden_channels, kernel_size, proj_size, dropout) ==
    LET rhc == CellRealHidden(proj_size, hidden_channels) IN
    [input_channels |-> in_ch,
     proj_size |-> proj_size,
     hidden_channels |-> hidden_channels,
     real_hidden_channels |-> rhc,
     kernel_size |-> kernel_size,
     padding |-> PaddingOf(kernel_size),
     has_dropout |-> dropout # None,
     dropout_p |-> dropout,
     conv |-> [in_channels |-> in_ch + rhc,
               out_channels |-> 4 * hidden_channels,
               kernel_size |-> kernel_size,
               padding |-> PaddingOf(kernel_size)],
     has_recurrent_output |-> proj_size > 0,
     recurrent_output |-> [in_channels |-> hidden_channels,
                           out_channels |-> rhc,
                           kernel_size |-> kernel_size,
                           padding |-> PaddingOf(kernel_size)]]

\* nn.Conv1d cannot allocate a weight with a negative dimension
ConvBuildable(conv) == conv.in_channels >= 0 /\ conv.out_channels >= 0

CellBuildable(c) ==
    /\ ConvBuildable(c.conv)
    /\ c.has_recurrent_output => ConvBuildable(c.recurrent_output)

\* Conv1dLSTMCell.forward on shapes: the shapes of the gates, h_next, c_next
\* (sigmoid, tanh and Dropout1d keep the shape of their argument)
CellForward(c, x, h, cc) ==
    LET combined == Cat1(x, h)
        combined_conv == IF combined = <<>> THEN <<>> ELSE Conv1d(c.conv, combined)
        gate == IF combined_conv = <<>> THEN <<>>
                ELSE <<combined_conv[1], c.hidden_channels, combined_conv[3]>>
        c_next == IF gate = <<>> THEN <<>>
                  ELSE LET fc == Broadcast(gate, cc)
                           ig == Broadcast(gate, gate)
                       IN IF fc = <<>> THEN <<>> ELSE Broadcast(fc, ig)
        h_raw == IF c_next = <<>> THEN <<>> ELSE Broadcast(gate, c_next)
        h_next == IF h_raw = <<>> THEN <<>>
                  ELSE IF c.has_recurrent_output THEN Conv1d(c.recurrent_output, h_raw)
                  ELSE h_raw
    IN [ok |-> h_next # <<>>, gates |-> gate, h_next |-> h_next,
        c_next |-> IF h_next = <<>> THEN <<>> ELSE c_next]

\* --------------------------------------------------------------- Conv1dLSTM
\* H_proj of the Conv1dLSTM docstring: the channel count of the h_0 a caller passes
HProj(proj_size, hidden_channels) ==
    IF proj_size > 0 THEN proj_size ELSE hidden_channels

\* Conv1dLSTM.__init__: self.real_hidden_channels
LstmRealHidden(proj_size, hidden_channels) ==
    IF proj_size = 0 THEN hidden_channels ELSE proj_size

\* a constructor that hands the same dropout to every layer, the last included
DropoutAtLayerAll(dropout, l, num_layers) == dropout

\* Conv1dLSTM.__init__: the value of the local `dropout` handed to the cell of
\* layer l (0-based); the loop reassigns the local on every iteration
RECURSIVE DropoutAtLayer(_, _, _)
DropoutAtLayer(dropout, l, num_layers) ==
    LET prev == IF l = 0 THEN dropout ELSE DropoutAtLayer(dropout, l - 1, num_layers)
    IN IF prev # None
       THEN (IF l < num_layers - 1 THEN prev ELSE 0)
       ELSE prev

\* Conv1dLSTM.__init__: input_channels of the cell of layer l (0-based)
LayerInputChannels(l, input_channels, real_hidden_channels) ==
    IF l = 0 THEN input_channels ELSE real_hidden_channels

BuildCellList(input_channels, hidden_channels, kernel_size, num_layers, proj_size, dropout) ==
    [i \in 1..num_layers |->
        Conv1dLSTMCell(LayerInputChannels(i - 1, input_channels,
                                          LstmRealHidden(proj_size, hidden_channels)),
                       hidden_channels, kernel_size, proj_size,
                       DropoutAtLayer(dropout, i - 1, num_layers))]

\* a forward that reports the bottom layer instead of the top one
TopLayerBottom(hid) == hid[1]

\* hidden[-1]: the top layer's hidden state
TopLayer(hid) == hid[Len(hid)]

\* a forward that forgets `xt = h_next`: every layer reads the input slice
NextLayerInputStale(x, h_next) == x

\* xt = h_next: what the next layer of the same time step reads
NextLayerInput(x, h_next) == h_next

\* input_tensor.unsqueeze(1) when input_tensor.dim() == 3
Unsqueeze1(s) == IF Len(s) = 3 THEN <<s[1], 1, s[2], s[3]>> ELSE s

\* the t-th chunk (1-based) of input_tensor.split(1, dim=1), after squeeze(1)
Chunk(s, t) == Tensor(<<s[1], s[3], s[4]>>, "x", t, 0)

\* torch.stack(output, dim=1); <<>> when the entries differ in shape
Stack1(out) ==
    IF \E a, b \in 1..Len(out) : out[a].shape # out[b].shape THEN <<>>
    ELSE LET s == out[1].shape IN <<s[1], Len(out), s[2], s[3]>>

InitLSTM ==
    /\ pc = "new"
    /\ lstm = [input_channels |-> 0, hidden_channels |-> 0, real_hidden_channels |-> 0,
               kernel_size |-> 0, num_layers |-> 0, proj_size |-> 0, dropout |-> None]
    /\ cell_list = <<>>
    /\ input_tensor = [arg |-> <<>>, shape |-> <<>>]
    /\ hidden = <<>>
    /\ cell = <<>>
    /\ xt = NoTensor
    /\ hidden_last = <<>>
    /\ cell_last = <<>>
    /\ layer_idx = 0
    /\ tstep = 0
    /\ output = <<>>
    /\ calls = <<>>
    /\ result = [output |-> [shape |-> <<>>, entries |-> <<>>], h_n |-> <<>>, c_n |-> <<>>]

\* Conv1dLSTM.__init__
Construct ==
    /\ pc = "new"
    /\ \E ic \in 1..MaxCh, hc \in 1..MaxCh, k \in 1..MaxKernel, n \in 1..MaxLayers,
          p \in (0 - MaxNegProj)..MaxCh, d \in DropoutValues :
         LET cl == BuildCellList(ic, hc, k, n, p, d) IN
         /\ lstm' = [input_channels |-> ic, hidden_channels |-> hc,
                     real_hidden_channels |-> LstmRealHidden(p, hc),
                     kernel_size |-> k, num_layers |-> n, proj_size |-> p, dropout |-> d]
         /\ cell_list' = cl
         /\ pc' = IF \A i \in 1..n : CellBuildable(cl[i]) THEN "built" ELSE "error"
    /\ UNCHANGED <<input_tensor, hidden, cell, xt, hidden_last, cell_last, layer_idx,
                   tstep, output, calls, result>>

\* Conv1dLSTM.forward, up to the first cell call
ForwardBegin ==
    /\ pc = "built"
    /\ \E dims \in {3, 4}, T \in 1..MaxT, N \in 1..MaxBatch, W \in 1..MaxW :
         LET arg == IF dims = 3 THEN <<N, lstm.input_channels, W>>
                    ELSE <<N, T, lstm.input_channels, W>>
             s == Unsqueeze1(arg)
             hp == HProj(lstm.proj_size, lstm.hidden_channels)
         IN /\ input_tensor' = [arg |-> arg, shape |-> s]
            /\ hidden' = [i \in 1..lstm.num_layers |-> Tensor(<<N, hp, W>>, "h0", 0, i - 1)]
            /\ cell' = [i \in 1..lstm.num_layers |->
                          Tensor(<<N, lstm.hidden_channels, W>>, "c0", 0, i - 1)]
            /\ xt' = Chunk(s, 1)
    /\ tstep' = 1
    /\ layer_idx' = 0
    /\ hidden_last' = <<>>
    /\ cell_last' = <<>>
    /\ output' = <<>>
    /\ pc' = "loop"
    /\ UNCHANGED <<lstm, cell_list, calls, result>>

\* one iteration of the layer loop of Conv1dLSTM.forward (one cell call), with
\* the end of the time-step iteration when the layer is the last one
CellStep ==
    /\ pc = "loop"
    /\ LET c == cell_list[layer_idx + 1]
           h == hidden[layer_idx + 1]
           cc == cell[layer_idx + 1]
           r == CellForward(c, xt.shape, h.shape, cc.shape)
           h_next == Tensor(r.h_next, "h", tstep, layer_idx)
           c_next == Tensor(r.c_next, "c", tstep, layer_idx)
           hl == Append(hidden_last, h_next)
           cl == Append(cell_last, c_next)
           T == input_tensor.shape[2]
       IN /\ calls' = Append(calls, [t |-> tstep, layer |-> layer_idx, x |-> xt,
                                     h |-> h, c |-> cc, gates |-> r.gates,
                                     h_next |-> h_next, c_next |-> c_next, ok |-> r.ok])
          /\ IF ~r.ok
             THEN /\ pc' = "error"
                  /\ UNCHANGED <<hidden, cell, xt, hidden_last, cell_last, layer_idx,
                                 tstep, output>>
             ELSE IF layer_idx < lstm.num_layers - 1
             THEN /\ xt' = NextLayerInput(xt, h_next)
                  /\ hidden_last' = hl
                  /\ cell_last' = cl
                  /\ layer_idx' = layer_idx + 1
                  /\ UNCHANGED <<pc, hidden, cell, tstep, output>>
             ELSE /\ hidden' = hl
                  /\ cell' = cl
                  /\ output' = Append(output, TopLayer(hl))
                  /\ hidden_last' = <<>>
                  /\ cell_last' = <<>>
                  /\ layer_idx' = 0
                  /\ IF tstep < T
                     THEN /\ tstep' = tstep + 1
                          /\ xt' = Chunk(input_tensor.shape, tstep + 1)
                          /\ pc' = "loop"
                     ELSE /\ pc' = "stack"
                          /\ UNCHANGED <<tstep, xt>>
    /\ UNCHANGED <<lstm, cell_list, input_tensor, result>>

\* Conv1dLSTM.forward: torch.stack and return
ForwardReturn ==
    /\ pc = "stack"
    /\ LET s == Stack1(output) IN
         IF s = <<>>
         THEN pc' = "error" /\ UNCHANGED result
         ELSE /\ result' = [output |-> [shape |-> s, entries |-> output],
                            h_n |-> hidden, c_n |-> cell]
              /\ pc' = "done"
    /\ UNCHANGED <<lstm, cell_list, input_tensor, hidden, cell, xt, hidden_last,
                   cell_last, layer_idx, tstep, output, calls>>

\* ------------------------------------------------------------------ Encoder
NoState == [kind |-> "none", j |-> 0, hshape |-> <<>>, cshape |-> <<>>]

\* an init_states that sizes the hidden state by the cell state's channels
InitStatesCellSized(e, batch_size) ==
    [kind |-> "zeros", j |-> 0,
     hshape |-> <<e.layers, batch_size, e.hidden_channels, e.masked_width>>,
     cshape |-> <<e.layers, batch_size, e.hidden_channels, e.masked_width>>]

\* Encoder.init_states
InitStates(e, batch_size) ==
    [kind |-> "zeros", j |-> 0,
     hshape |-> <<e.layers, batch_size, e.real_hidden_channels, e.masked_width>>,
     cshape |-> <<e.layers, batch_size, e.hidden_channels, e.masked_width>>]

\* WaveletConv1dLSTM.forward(xj, hidden_state, j): an embedding of scale j and
\* the recurrent state after scale j, both opaque to Encoder (the shapes of the
\* returned state are not known here)
WaveRnn(xj, state, jj) ==
    [emb |-> [j |-> jj, x |-> xj.idx, from |-> state],
     state |-> [kind |-> "rnn", j |-> jj, hshape |-> <<>>, cshape |-> <<>>]]

\* the state handed to the recurrent network at the next scale
NextState(old, returned) == returned

InitEncoder ==
    /\ e_pc = "new"
    /\ enc = [channels |-> 0, masked_width |-> 0, J |-> 0, real_hidden_channels |-> 0,
              hidden_channels |-> 0, layers |-> 0, proj_size |-> 0]
    /\ masked_inputs = <<>>
    /\ meta_data = 0
    /\ hidden_state = NoState
    /\ hidden_embedding = <<>>
    /\ j = 0
    /\ rnn_calls = <<>>
    /\ e_result = [hidden_embedding |-> <<>>, meta_data |-> 0]

\* Encoder.__init__: `hidden_channels` is not a name of its scope, so evaluating
\* the else-branch of real_hidden_channels raises NameError
EncoderInit ==
    /\ e_pc = "new"
    /\ \E ch \in 1..MaxCh, pw \in 1..MaxW, JJ \in 1..MaxJ, hs \in 1..MaxCh,
          ly \in 1..MaxLayers, ps \in 0..MaxCh :
         IF ps > 0
         THEN /\ enc' = [channels |-> ch, masked_width |-> pw, J |-> JJ,
                         real_hidden_channels |-> ps, hidden_channels |-> hs,
                         layers |-> ly, proj_size |-> ps]
              /\ e_pc' = "built"
         ELSE /\ enc' = [enc EXCEPT !.channels = ch, !.masked_width = pw, !.J = JJ,
                                    !.proj_size = ps]
              /\ e_pc' = "error"
    /\ UNCHANGED <<masked_inputs, meta_data, hidden_state, hidden_embedding, j,
                   rnn_calls, e_result>>

\* Encoder.forward up to the loop over scales: the three asserts and init_states
EncoderForwardBegin ==
    /\ e_pc = "built"
    /\ \E n \in 1..MaxJ, B \in 1..MaxBatch, ch \in 1..MaxCh, w \in 1..MaxW,
          md \in MetaValues :
         /\ masked_inputs' = [i \in 1..n |-> [shape |-> <<B, ch, w>>, idx |-> i - 1]]
         /\ meta_data' = md
         /\ IF n = enc.J /\ ch = enc.channels /\ w = enc.masked_width
            THEN /\ hidden_state' = InitStates(enc, B)
                 /\ e_pc' = "loop"
            ELSE /\ e_pc' = "error"
                 /\ UNCHANGED hidden_state
    /\ hidden_embedding' = <<>>
    /\ j' = 0
    /\ UNCHANGED <<enc, rnn_calls, e_result>>

\* one iteration of the loop over scales; the last one returns
EncoderScaleStep ==
    /\ e_pc = "loop"
    /\ LET xj == masked_inputs[j + 1]
           r == WaveRnn(xj, hidden_state, j)
           he == Append(hidden_embedding, r.emb)
       IN /\ rnn_calls' = Append(rnn_calls, [j |-> j, x |-> xj, state |-> hidden_state,
                                             emb |-> r.emb, state_out |-> r.state])
          /\ hidden_state' = NextState(hidden_state, r.state)
          /\ hidden_embedding' = he
          /\ IF j + 1 < enc.J
             THEN /\ j' = j + 1
                  /\ UNCHANGED <<e_pc, e_result>>
             ELSE /\ e_result' = [hidden_embedding |-> he, meta_data |-> meta_data]
                  /\ e_pc' = "done"
                  /\ UNCHANGED j
    /\ UNCHANGED <<enc, masked_inputs, meta_data>>

\* ------------------------------------------------------------- run_vae.main
NoModel == [reloaded |-> FALSE, ckpt |-> 0, frozen |-> FALSE]

\* model.load_checkpoint(path)
LoadCheckpoint(path) == [reloaded |-> TRUE, ckpt |-> path, frozen |-> FALSE]

\* a freeze that leaves the model trainable
FreezeNoop(m) == m

\* trained_model.freeze()
Freeze(m) == [m EXCEPT !.frozen = TRUE]

InitMain ==
    /\ m_pc = "start"
    /\ dm = "none"
    /\ latent_dimension = 0
    /\ events = <<>>
    /\ best_model_path = 0
    /\ trained_model = NoModel
    /\ tested = <<>>

\* main: load the data module and set the dimensions
MainLoadData ==
    /\ m_pc = "start"
    /\ \E simulated \in BOOLEAN :
         IF simulated
         THEN /\ dm' = "simulated"
              /\ \E nb \in 1..MaxBases : latent_dimension' = nb
         ELSE /\ dm' = "ascat"
              /\ latent_dimension' = 40
    /\ m_pc' = "encoder"
    /\ UNCHANGED <<events, best_model_path, trained_model, tested>>

\* encoder = SequenceEncoder(...)
MainCreateEncoder ==
    /\ m_pc = "encoder"
    /\ events' = Append(events, "encoder")
    /\ m_pc' = "decoder"
    /\ UNCHANGED <<dm, latent_dimension, best_model_path, trained_model, tested>>

\* decoder = WrappedLinearDecoder(...)
MainCreateDecoder ==
    /\ m_pc = "decoder"
    /\ events' = Append(events, "decoder")
    /\ m_pc' = "val_iter"
    /\ UNCHANGED <<dm, latent_dimension, best_model_path, trained_model, tested>>

\* val_iterator = iter(dm.val_dataloader())
MainValIterator ==
    /\ m_pc = "val_iter"
    /\ events' = Append(events, "val_iter")
    /\ m_pc' = "create"
    /\ UNCHANGED <<dm, latent_dimension, best_model_path, trained_model, tested>>

\* model, trainer = create_vanilla_vae(..., validation_hook_batch=next(val_iterator))
MainCreateVAE ==
    /\ m_pc = "create"
    /\ events' = events \o <<"next_val", "create_vanilla_vae">>
    /\ m_pc' = "fit"
    /\ UNCHANGED <<dm, latent_dimension, best_model_path, trained_model, tested>>

\* trainer.fit(model, datamodule=dm)
MainFit ==
    /\ m_pc = "fit"
    /\ events' = Append(events, "fit")
    /\ \E path \in 1..MaxCkpt : best_model_path' = path
    /\ m_pc' = "load"
    /\ UNCHANGED <<dm, latent_dimension, trained_model, tested>>

\* trained_model = model.load_checkpoint(trainer.checkpoint_callback.best_model_path)
MainLoadCheckpoint ==
    /\ m_pc = "load"
    /\ events' = Append(events, "load_checkpoint")
    /\ trained_model' = LoadCheckpoint(best_model_path)
    /\ m_pc' = "freeze"
    /\ UNCHANGED <<dm, latent_dimension, best_model_path, tested>>

\* trained_model.freeze()
MainFreeze ==
    /\ m_pc = "freeze"
    /\ events' = Append(events, "freeze")
    /\ trained_model' = Freeze(trained_model)
    /\ m_pc' = "test"
    /\ UNCHANGED <<dm, latent_dimension, best_model_path, tested>>

\* trainer.test(trained_model, dataloaders=dm.test_dataloader())
MainTest ==
    /\ m_pc = "test"
    /\ events' = Append(events, "test")
    /\ tested' = Append(tested, trained_model)
    /\ m_pc' = "done"
    /\ UNCHANGED <<dm, latent_dimension, best_model_path, trained_model>>

\* any of the calls may raise, which ends main
MainRaise ==
    /\ m_pc \in {"encoder", "decoder", "val_iter", "create", "fit", "load", "freeze", "test"}
    /\ m_pc' = "raised"
    /\ UNCHANGED <<dm, latent_dimension, events, best_model_path, trained_model, tested>>

\* ----------------------------------------------------------- specifications
vars == <<lstmVars, encVars, mainVars>>

Init == InitLSTM /\ InitEncoder /\ InitMain

Next ==
    \/ Construct /\ UNCHANGED <<encVars, mainVars>>
    \/ ForwardBegin /\ UNCHANGED <<encVars, mainVars>>
    \/ CellStep /\ UNCHANGED <<encVars, mainVars>>
    \/ ForwardReturn /\ UNCHANGED <<encVars, mainVars>>

Spec == Init /\ [][Next]_vars

NextEncoder ==
    \/ EncoderInit /\ UNCHANGED <<lstmVars, mainVars>>
    \/ EncoderForwardBegin /\ UNCHANGED <<lstmVars, mainVars>>
    \/ EncoderScaleStep /\ UNCHANGED <<lstmVars, mainVars>>

SpecEncoder == Init /\ [][NextEncoder]_vars

NextMain ==
    \/ MainLoadData /\ UNCHANGED <<lstmVars, encVars>>
    \/ MainCreateEncoder /\ UNCHANGED <<lstmVars, encVars>>
    \/ MainCreateDecoder /\ UNCHANGED <<lstmVars, encVars>>
    \/ MainValIterator /\ UNCHANGED <<lstmVars, encVars>>
    \/ MainCreateVAE /\ UNCHANGED <<lstmVars, encVars>>
    \/ MainFit /\ UNCHANGED <<lstmVars, encVars>>
    \/ MainLoadCheckpoint /\ UNCHANGED <<lstmVars, encVars>>
    \/ MainFreeze /\ UNCHANGED <<lstmVars, encVars>>
    \/ MainTest /\ UNCHANGED <<lstmVars, encVars>>
    \/ MainRaise /\ UNCHANGED <<lstmVars, encVars>>

SpecMain == Init /\ [][NextMain]_vars

\* ------------------------------------------------------------------- claims
\* time steps of the tensor handed to Conv1dLSTM.forward (a 3-d tensor has one)
ArgT == IF Len(input_tensor.arg) = 3 THEN 1 ELSE input_tensor.arg[2]

ArgN == input_tensor.arg[1]

ArgW == input_tensor.arg[Len(input_tensor.arg)]

\* C1: when Conv1dLSTM.forward returns for an input of T time steps (T = 1 for
\* a 3-d input), output has exactly T entries along the time axis, entry t is
\* the hidden state the top layer computed at time step t, and h_n, c_n each
\* hold num_layers tensors: the states every layer computed at time step T.
C1_ForwardResult ==
    pc = "done" =>
        LET n == lstm.num_layers IN
        /\ Len(result.output.entries) = ArgT
        /\ result.output.shape[2] = ArgT
        /\ \A t \in 1..ArgT :
             /\ result.output.entries[t].id = [kind |-> "h", t |-> t, l |-> n - 1]
             /\ \E i \in 1..Len(calls) :
                  /\ calls[i].t = t /\ calls[i].layer = n - 1
                  /\ calls[i].h_next = result.output.entries[t]
        /\ Len(result.h_n) = n
        /\ Len(result.c_n) = n
        /\ \A l \in 0..(n - 1) :
             \E i \in 1..Len(calls) :
                /\ calls[i].t = ArgT /\ calls[i].layer = l
                /\ calls[i].h_next = result.h_n[l + 1]
                /\ calls[i].c_next = result.c_n[l + 1]

C1_Witness ==
    /\ pc = "done"
    /\ lstm.num_layers = 2
    /\ Len(input_tensor.arg) = 4
    /\ Len(result.output.entries) = 2

\* C2: for every kernel_size >= 1 and every signal length W the gates of a
\* cell call have signal length W, so h_next and c_next have length W, and the
\* output of Conv1dLSTM.forward has shape (N, time_steps, H_proj, W).
C2_LengthPreserved ==
    /\ \A i \in 1..Len(calls) :
         /\ calls[i].gates # <<>> => calls[i].gates[3] = calls[i].x.shape[3]
         /\ calls[i].ok => /\ calls[i].h_next.shape[3] = calls[i].x.shape[3]
                           /\ calls[i].c_next.shape[3] = calls[i].x.shape[3]
    /\ pc = "done" =>
         result.output.shape =
            <<ArgN, ArgT, HProj(lstm.proj_size, lstm.hidden_channels), ArgW>>

\* C3: H_proj is proj_size if proj_size > 0 and hidden_channels otherwise, and
\* for every integer proj_size Conv1dLSTM.real_hidden_channels equals the
\* real_hidden_channels of each cell it constructs, so the input channels of
\* layer l >= 1 equal the hidden channels layer l-1 produces.
C3_RealHiddenAgree ==
    pc = "built" =>
        /\ lstm.real_hidden_channels =
              (IF lstm.proj_size > 0 THEN lstm.proj_size ELSE lstm.hidden_channels)
        /\ \A i \in 1..Len(cell_list) :
              cell_list[i].real_hidden_channels = lstm.real_hidden_channels
        /\ \A i \in 2..Len(cell_list) :
              cell_list[i].input_channels = cell_list[i - 1].real_hidden_channels

\* C4: the cell calls of Conv1dLSTM.forward run layer 0, 1, ..., num_layers-1
\* within each time step; layer 0 reads that time step's slice of the input and
\* layer l >= 1 reads the hidden state layer l-1 just produced at that step.
C4_LayerChaining ==
    \A i \in 1..Len(calls) :
        LET n == lstm.num_layers
            c == calls[i]
        IN /\ c.layer = (i - 1) % n
           /\ c.t = ((i - 1) \div n) + 1
           /\ c.layer = 0 =>
                /\ c.x.id = [kind |-> "x", t |-> c.t, l |-> 0]
                /\ c.x.shape = <<ArgN, lstm.input_channels, ArgW>>
           /\ c.layer >= 1 =>
                /\ calls[i - 1].t = c.t
                /\ calls[i - 1].layer = c.layer - 1
                /\ c.x = calls[i - 1].h_next

C4_Witness ==
    \E i \in 1..Len(calls) : calls[i].layer = 1 /\ calls[i].t = 2 /\ calls[i].ok

\* C5: with dropout not None, every cell of layers 0 .. num_layers-2 is built
\* with that dropout probability and the cell of the last layer with
\* probability 0; with dropout None no cell has a dropout layer.
C5_DropoutPerLayer ==
    pc = "built" =>
        LET n == lstm.num_layers IN
        IF lstm.dropout # None
        THEN /\ \A i \in 1..(n - 1) : /\ cell_list[i].has_dropout
                                      /\ cell_list[i].dropout_p = lstm.dropout
             /\ cell_list[n].has_dropout
             /\ cell_list[n].dropout_p = 0
        ELSE \A i \in 1..n : ~cell_list[i].has_dropout

C5_Witness ==
    /\ pc = "built"
    /\ lstm.num_layers = 2
    /\ lstm.dropout = 5
    /\ cell_list[1].dropout_p = 5

\* C6: Encoder.forward starts from zero states of shape (layers, batch,
\* real_hidden_channels, pooled_width) and (layers, batch, hidden_size,
\* pooled_width), runs the scales j = 0 .. J-1 in order, hands the state
\* returned at scale j to scale j+1, and returns the J embeddings in scale
\* order together with meta_data as it was passed in.
C6_EncoderForward ==
    e_pc = "done" =>
        LET B == masked_inputs[1].shape[1] IN
        /\ Len(rnn_calls) = enc.J
        /\ Len(e_result.hidden_embedding) = enc.J
        /\ e_result.meta_data = meta_data
        /\ rnn_calls[1].state.kind = "zeros"
        /\ rnn_calls[1].state.hshape =
              <<enc.layers, B, enc.real_hidden_channels, enc.masked_width>>
        /\ rnn_calls[1].state.cshape =
              <<enc.layers, B, enc.hidden_channels, enc.masked_width>>
        /\ enc.real_hidden_channels = enc.proj_size
        /\ \A i \in 1..enc.J :
              /\ rnn_calls[i].j = i - 1
              /\ rnn_calls[i].x = masked_inputs[i]
              /\ e_result.hidden_embedding[i] = rnn_calls[i].emb
              /\ i > 1 => rnn_calls[i].state = rnn_calls[i - 1].state_out

C6_Witness ==
    /\ e_pc = "done"
    /\ enc.J = 3
    /\ enc.real_hidden_channels # enc.hidden_channels
    /\ Len(e_result.hidden_embedding) = 3

MainOrder ==
    <<"encoder", "decoder", "val_iter", "next_val", "create_vanilla_vae", "fit",
      "load_checkpoint", "freeze", "test">>

\* C7: main's calls happen in the fixed order encoder, decoder, validation
\* batch, create_vanilla_vae, fit, load_checkpoint, freeze, test; the model
\* handed to trainer.test has been reloaded from the trainer's best checkpoint
\* path and frozen, and trainer.fit has returned before.
C7_MainOrder ==
    /\ Len(events) <= Len(MainOrder)
    /\ \A i \in 1..Len(events) : events[i] = MainOrder[i]
    /\ \A i \in 1..Len(tested) :
          /\ tested[i].reloaded
          /\ tested[i].frozen
          /\ tested[i].ckpt = best_model_path
          /\ \E k \in 1..Len(events) : events[k] = "fit"
          /\ m_pc = "done"

C7_Witness ==
    /\ m_pc = "done"
    /\ Len(tested) = 1
    /\ events[Len(events)] = "test"

====
